---------------------------- MODULE Spec2Model ----------------------------
(***************************************************************************)
(* Model of src/api/function_app.py: the GPS tracking function app.        *)
(*                                                                         *)
(* Two event-hub consumers read the same telemetry stream: the storage     *)
(* consumer (eventhub_trigger) writes every sample to the gps-data         *)
(* container, the geofence consumer (geofence_trigger) evaluates the       *)
(* sample against the boundary blob and calls send_geofence_alert.         *)
(*                                                                         *)
(* Python values are tagged tuples: None, Num(n), Str(s).  A dict is a     *)
(* function whose DOMAIN is the set of keys that are present.              *)
(* Coordinates are whole multiples of 1/111000 degree, so that the         *)
(* program's "degrees * 111000" is a whole number of metres.               *)
(***************************************************************************)
EXTENDS Integers, Sequences, FiniteSets, TLC

VARIABLES
    env,            \* os.environ: the set of names that are set
    geofence_blob,  \* content of the boundary blob in the object store
    store,          \* the gps-data container: blob name -> stored body
    clock,          \* datetime.utcnow(), an index into Timeline
    last,           \* record of the handler invocation that ran last
    handled,        \* number of handler invocations so far
    alert_calls,    \* number of calls of send_geofence_alert so far
    eligible,       \* number of geofence events whose decision was <= 0
    boundary_log,   \* the boundary definitions loaded so far, in order
    uploads,        \* number of upload_blob calls that succeeded so far
    hub             \* the event hub: its stream and the offset of each
                    \* consumer group in it

vars == <<env, geofence_blob, store, clock, last, handled, alert_calls, eligible,
          boundary_log, uploads, hub>>

---------------------------------------------------------------------------
(* Bounds of the model *)

MaxEvents == 2

---------------------------------------------------------------------------
(* Python values *)

None == <<"None">>
Num(n) == <<"num", n>>
Str(s) == <<"str", s>>
IsNum(v) == Len(v) = 2 /\ v[1] = "num"
Val(v) == v[2]

EmptyDict == [k \in {} |-> None]

\* dict.get(key, default)
Get(d, key, default) == IF key \in DOMAIN d THEN d[key] ELSE default

\* bool(v) for the values that occur: None, 0 and "" are falsy
Truthy(v) == ~(v = None \/ v = Num(0) \/ v = Str(""))

\* a or b
PyOr(a, b) == IF Truthy(a) THEN a ELSE b

---------------------------------------------------------------------------
(* Planar geometry of shapely, on the integer grid.  A point is            *)
(* <<x, y>> = <<lon, lat>>.  A ring is a sequence of points.               *)

MetersPerDegree == 111000
UnitsPerDegree == MetersPerDegree

Min(a, b) == IF a < b THEN a ELSE b
Max(a, b) == IF a > b THEN a ELSE b
Clamp(v, lo, hi) == Max(lo, Min(v, hi))

ISqrt(n) == CHOOSE r \in 0..n : r * r <= n /\ (r + 1) * (r + 1) > n

\* Polygon(shell): the shell is closed implicitly
ClosedRing(ring) ==
    IF ring[1] = ring[Len(ring)] THEN ring ELSE Append(ring, ring[1])

\* p lies on the segment a-b
OnSegment(p, a, b) ==
    /\ (b[1] - a[1]) * (p[2] - a[2]) = (b[2] - a[2]) * (p[1] - a[1])
    /\ Min(a[1], b[1]) <= p[1] /\ p[1] <= Max(a[1], b[1])
    /\ Min(a[2], b[2]) <= p[2] /\ p[2] <= Max(a[2], b[2])

\* the ray from p towards +x crosses the segment a-b
RayCrosses(p, a, b) ==
    /\ (a[2] > p[2]) # (b[2] > p[2])
    /\ LET dy == b[2] - a[2]
           lhs == (p[1] - a[1]) * dy
           rhs == (p[2] - a[2]) * (b[1] - a[1])
       IN  IF dy > 0 THEN lhs < rhs ELSE lhs > rhs

OnBoundary(p, ring) ==
    \E i \in 1..(Len(ring) - 1) : OnSegment(p, ring[i], ring[i + 1])

\* polygon.contains(point): true for points of the interior only
Contains(ring, p) ==
    /\ ~OnBoundary(p, ring)
    /\ Cardinality({i \in 1..(Len(ring) - 1) :
                       RayCrosses(p, ring[i], ring[i + 1])}) % 2 = 1

\* squared distance from p to the segment a-b; the rings of the model are
\* rectilinear, so the nearest point of a segment is p clamped to it
SegDist2(p, a, b) ==
    LET nx == Clamp(p[1], Min(a[1], b[1]), Max(a[1], b[1]))
        ny == Clamp(p[2], Min(a[2], b[2]), Max(a[2], b[2]))
    IN  (p[1] - nx) * (p[1] - nx) + (p[2] - ny) * (p[2] - ny)

BoundaryDist2(p, ring) ==
    LET ds == {SegDist2(p, ring[i], ring[i + 1]) : i \in 1..(Len(ring) - 1)}
    IN  CHOOSE d \in ds : \A e \in ds : d <= e

\* point.distance(polygon.boundary) * 111000, in metres
DistanceMeters(p, ring) ==
    (ISqrt(BoundaryDist2(p, ring)) * MetersPerDegree) \div UnitsPerDegree

---------------------------------------------------------------------------
(* The boundary documents *)

Ring1 == << <<0, 0>>, <<200, 0>>, <<200, 200>>, <<0, 200>>, <<0, 0>> >>
Ring2 == << <<-200, 0>>, <<-60, 0>>, <<-60, 200>>, <<-200, 200>>, <<-200, 0>> >>

PolygonGeometry(ring) == [type |-> "Polygon", coordinates |-> <<ring>>]
PointGeometry == [type |-> "Point", coordinates |-> <<100, 100>>]
Feature(g) == [type |-> "Feature", geometry |-> g]
FeatureCollection(fs) == [type |-> "FeatureCollection", features |-> fs]


\* what json.loads(blob.readall()) can find in the boundary blob;
\* "garbage" is content that is no JSON
JsonBlob(doc) == [kind |-> "json", doc |-> doc]
GarbageBlob == [kind |-> "garbage", doc |-> EmptyDict]

BlobContents ==
    { JsonBlob(PolygonGeometry(Ring1)),
      JsonBlob(FeatureCollection(<<Feature(PolygonGeometry(Ring1))>>)),
      JsonBlob(FeatureCollection(<<Feature(PolygonGeometry(Ring1)),
                                   Feature(PolygonGeometry(Ring2))>>)),
      JsonBlob(FeatureCollection(<<Feature(PolygonGeometry(Ring2)),
                                   Feature(PolygonGeometry(Ring1))>>)),
      JsonBlob(PointGeometry),
      JsonBlob(FeatureCollection(<<Feature(PointGeometry),
                                   Feature(PolygonGeometry(Ring1))>>)),
      JsonBlob(FeatureCollection(<< >>)),
      GarbageBlob }

---------------------------------------------------------------------------
(* point_in_geofence *)

NearBoundaryMeters == 50
Sentinel == 999

\* the geometry the evaluator looks at: features[0].geometry of a
\* FeatureCollection, else the document itself; "error" stands for the
\* KeyError / IndexError of a lookup that fails
SelectGeometry(geofence_data) ==
    IF "type" \notin DOMAIN geofence_data THEN "error"
    ELSE IF geofence_data["type"] = "FeatureCollection"
         THEN IF /\ "features" \in DOMAIN geofence_data
                 /\ Len(geofence_data["features"]) >= 1
                 /\ "geometry" \in DOMAIN geofence_data["features"][1]
              THEN "first_feature"
              ELSE "error"
         ELSE "document"

\* Geometry taking the last feature of a FeatureCollection
GeometryOfLastFeature(geofence_data) ==
    IF /\ SelectGeometry(geofence_data) = "first_feature"
       /\ "geometry" \in DOMAIN geofence_data["features"][Len(geofence_data["features"])]
    THEN geofence_data["features"][Len(geofence_data["features"])]["geometry"]
    ELSE geofence_data

Geometry(geofence_data) ==
    IF SelectGeometry(geofence_data) = "first_feature"
    THEN geofence_data["features"][1]["geometry"]
    ELSE geofence_data

\* PolygonDecision with the threshold test written >= instead of >
PolygonDecisionInclusive(point, ring) ==
    LET distance == DistanceMeters(point, ring)
    IN  IF Contains(ring, point)
        THEN IF distance >= NearBoundaryMeters THEN Num(-Sentinel) ELSE Num(-distance)
        ELSE IF distance >= NearBoundaryMeters THEN Num(Sentinel) ELSE Num(distance)

\* the four-way decision of lines 71-74 for a point and a polygon ring
PolygonDecision(point, ring) ==
    LET distance == DistanceMeters(point, ring)
    IN  IF Contains(ring, point)
        THEN IF distance > NearBoundaryMeters THEN Num(-Sentinel) ELSE Num(-distance)
        ELSE IF distance > NearBoundaryMeters THEN Num(Sentinel) ELSE Num(distance)

\* the value point_in_geofence returns: a number, or None when the try block
\* ends without reaching a return
point_in_geofence(lat, lon, geofence_data) ==
    LET point == <<Val(lon), Val(lat)>>
    IN  IF SelectGeometry(geofence_data) = "error" THEN Num(Sentinel)
        ELSE LET geometry == Geometry(geofence_data)
             IN  IF "type" \notin DOMAIN geometry THEN Num(Sentinel)
                 ELSE IF geometry["type"] = "Polygon"
                      THEN IF \/ "coordinates" \notin DOMAIN geometry
                              \/ Len(geometry["coordinates"]) < 1
                              \/ Len(geometry["coordinates"][1]) < 3
                           THEN Num(Sentinel)
                           ELSE PolygonDecision(point,
                                    ClosedRing(geometry["coordinates"][1]))
                      ELSE None

---------------------------------------------------------------------------
(* send_geofence_alert *)

DefaultSender == Str("notifications@yourdomain.com")

\* os.getenv(name, default): the value of a set variable is abstracted
\* to its name
Getenv(environ, name, default) == IF name \in environ THEN Str(name) ELSE default

\* whether the code takes the sending branch
ChannelConfigured(environ) == "SendGridApiKey" \in environ

\* send_geofence_alert sending a second time when the first send fails
send_geofence_alert_retrying(lat, lon, distance, device_id, environ, send_ok) ==
    [ lat       |-> lat,
      lon       |-> lon,
      distance  |-> distance,
      device_id |-> device_id,
      mock      |-> "SendGridApiKey" \notin environ,
      attempts  |-> IF "SendGridApiKey" \notin environ THEN 0
                    ELSE IF send_ok THEN 1 ELSE 2,
      from      |-> None,
      to        |-> None,
      delivered |-> "SendGridApiKey" \in environ,
      raised    |-> FALSE ]

\* one call of send_geofence_alert; send_ok tells whether sg.send succeeds.
\* attempts counts the calls of sg.send; raised tells whether an exception
\* leaves the function
send_geofence_alert(lat, lon, distance, device_id, environ, send_ok) ==
    [ lat       |-> lat,
      lon       |-> lon,
      distance  |-> distance,
      device_id |-> device_id,
      mock      |-> ~ChannelConfigured(environ),
      attempts  |-> IF ChannelConfigured(environ) THEN 1 ELSE 0,
      from      |-> IF ChannelConfigured(environ)
                    THEN Getenv(environ, "SenderEmail", DefaultSender) ELSE None,
      to        |-> IF ChannelConfigured(environ)
                    THEN Getenv(environ, "AlertRecipientEmail", None) ELSE None,
      delivered |-> ChannelConfigured(environ) /\ send_ok,
      raised    |-> FALSE ]

---------------------------------------------------------------------------
(* process_geofence_event *)

\* lines 84-86
GpsData(event_body) == Get(event_body, "gps", event_body)
ExtractLat(event_body) ==
    PyOr(Get(GpsData(event_body), "lat", None),
         Get(GpsData(event_body), "latitude", None))
ExtractLon(event_body) ==
    PyOr(Get(GpsData(event_body), "lon", None),
         Get(GpsData(event_body), "longitude", None))

\* line 88
CoordinatesMissing(lat, lon) == lat = None \/ lon = None

\* AlertEligible with the test written < instead of <=
AlertEligibleStrict(distance) == Val(distance) < 0

\* line 108
AlertEligible(distance) == Val(distance) <= 0

NoBlob == [kind |-> "none", doc |-> EmptyDict]

\* process_geofence_event with the download moved before the check of the
\* coordinates
process_geofence_event_fetch_first(event_body, device_id, blob, environ, fetch_ok, send_ok) ==
    LET lat == ExtractLat(event_body)
        lon == ExtractLon(event_body)
        base == [ lat |-> lat, lon |-> lon, fetches |-> 1, boundary |-> NoBlob,
                  evaluated |-> FALSE, decision |-> None, alerts |-> << >>,
                  raised |-> FALSE, outcome |-> "skipped_no_coordinates" ]
    IN  IF ~fetch_ok \/ blob.kind # "json"
        THEN [base EXCEPT !.raised = TRUE, !.outcome = "boundary_load_failed"]
        ELSE IF CoordinatesMissing(lat, lon) THEN [base EXCEPT !.boundary = blob]
        ELSE LET distance == point_in_geofence(lat, lon, blob.doc)
                 loaded == [base EXCEPT !.boundary = blob,
                                        !.evaluated = TRUE, !.decision = distance]
             IN  IF ~IsNum(distance)
                 THEN [loaded EXCEPT !.raised = TRUE,
                                     !.outcome = "comparison_failed"]
                 ELSE IF AlertEligible(distance)
                 THEN [loaded EXCEPT
                         !.alerts = <<send_geofence_alert(lat, lon, distance,
                                          device_id, environ, send_ok)>>,
                         !.outcome = "dispatched"]
                 ELSE [loaded EXCEPT !.outcome = "outside"]

\* One call of process_geofence_event.  blob is the boundary blob,
\* fetch_ok tells whether the download succeeds.  The result records what
\* the call did: fetches counts the downloads, evaluated tells whether
\* point_in_geofence was called, alerts lists the calls of
\* send_geofence_alert, raised tells whether an exception leaves the call.
\* LoadBoundary taking content that is no JSON for an empty document
LoadBoundaryLenient(blob, fetch_ok) ==
    IF ~fetch_ok THEN NoBlob
    ELSE IF blob.kind # "json" THEN JsonBlob(EmptyDict) ELSE blob

\* lines 95-103: the boundary document read from the blob; NoBlob when the
\* download or json.loads raises
LoadBoundary(blob, fetch_ok) ==
    IF ~fetch_ok \/ blob.kind # "json" THEN NoBlob ELSE blob

process_geofence_event(event_body, device_id, blob, environ, fetch_ok, send_ok) ==
    LET lat == ExtractLat(event_body)
        lon == ExtractLon(event_body)
        base == [ lat |-> lat, lon |-> lon, fetches |-> 0, boundary |-> NoBlob,
                  evaluated |-> FALSE, decision |-> None, alerts |-> << >>,
                  raised |-> FALSE, outcome |-> "skipped_no_coordinates" ]
    IN  IF CoordinatesMissing(lat, lon) THEN base
        ELSE IF LoadBoundary(blob, fetch_ok) = NoBlob
        THEN [base EXCEPT !.fetches = 1, !.raised = TRUE,
                          !.outcome = "boundary_load_failed"]
        ELSE LET geofence_data == LoadBoundary(blob, fetch_ok)
                 distance == point_in_geofence(lat, lon, geofence_data.doc)
                 loaded == [base EXCEPT !.fetches = 1, !.boundary = geofence_data,
                                        !.evaluated = TRUE, !.decision = distance]
             IN  IF ~IsNum(distance)
                 THEN [loaded EXCEPT !.raised = TRUE,
                                     !.outcome = "comparison_failed"]
                 ELSE IF AlertEligible(distance)
                 THEN [loaded EXCEPT
                         !.alerts = <<send_geofence_alert(lat, lon, distance,
                                          device_id, environ, send_ok)>>,
                         !.outcome = "dispatched"]
                 ELSE [loaded EXCEPT !.outcome = "outside"]

---------------------------------------------------------------------------
(* The inbound stream.  An event is what azeventhub carries: kind tells   *)
(* what json.loads finds in the body ("object", "array" for JSON that is  *)
(* no object, "garbage" for bytes that are no JSON), body is the decoded  *)
(* object, meta is iothub_metadata.                                        *)

Event(kind, body, meta) == [kind |-> kind, body |-> body, meta |-> meta]

Lats == {0, 100}
Lons == {-51, -50, -1, 0, 1, 50, 51, 200}

\* a coordinate under the key it is named by; "" is no key at all
Keyed(key, v) == IF key = "" THEN EmptyDict ELSE key :> Num(v)
CoordDict(latKey, lat, lonKey, lon) == Keyed(latKey, lat) @@ Keyed(lonKey, lon)

\* the coordinates at the top level or nested under gps
Shaped(nested, d) == IF nested THEN "gps" :> d ELSE d

DeviceMeta == "connection-device-id" :> Str("dev1")
EnqueuedMeta == "enqueuedtime" :> Str("2024-01-02T23:59:50")

\* the payload's deviceId: absent, null, empty, plain, with a slash
IdParts ==
    { EmptyDict, "deviceId" :> None, "deviceId" :> Str(""),
      "deviceId" :> Str("dev2"), "deviceId" :> Str("a/b") }

\* how the two places of the device id combine
IdCases ==
    {<<EmptyDict, p>> : p \in IdParts}
      \cup {<<DeviceMeta, EmptyDict>>, <<DeviceMeta, "deviceId" :> Str("dev2")>>}

MalformedEvents ==
    { Event("garbage", EmptyDict, DeviceMeta),
      Event("array", EmptyDict, DeviceMeta),
      Event("array", EmptyDict, EmptyDict) }

\* events of the geofence consumer: every point of the grid in one shape,
\* every shape and naming with two points, every device id case, a payload
\* that carries both lat and latitude, and the malformed ones
GeoEvents ==
    {Event("object", CoordDict("lat", la, "lon", lo), DeviceMeta) :
        la \in Lats, lo \in Lons}
      \cup
    {Event("object", Shaped(n, CoordDict(lk, p[1], ok, p[2])), DeviceMeta) :
        n \in BOOLEAN, lk \in {"", "lat", "latitude"},
        ok \in {"", "lon", "longitude"}, p \in {<<0, 0>>, <<100, 51>>}}
      \cup
    {Event("object", CoordDict("lat", 100, "lon", 51) @@ c[2], c[1]) :
        c \in IdCases}
      \cup
    {Event("object", ("lat" :> Num(0)) @@ CoordDict("latitude", 100, "lon", 51),
           DeviceMeta)}
      \cup MalformedEvents

---------------------------------------------------------------------------
(* geofence_trigger *)

\* lines 128-130 and 195-197, for a payload that is a JSON object
ResolveDeviceId(ev) ==
    PyOr(Get(ev.meta, "connection-device-id", None),
         Get(ev.body, "deviceId", Str("unknown-device")))

\* the lookup of the device id raises when the payload is no object and the
\* metadata gives no id: event_body.get does not exist
DeviceIdRaises(ev) ==
    ev.kind = "array" /\ ~Truthy(Get(ev.meta, "connection-device-id", None))

\* except Exception: whether an exception raised inside the try block of a
\* handler is caught there
CatchesNothing(raised_inside) == FALSE
CatchesAll(raised_inside) == raised_inside

NoRun ==
    [ lat |-> None, lon |-> None, fetches |-> 0, boundary |-> NoBlob,
      evaluated |-> FALSE, decision |-> None, alerts |-> << >>,
      raised |-> FALSE, outcome |-> "not_called" ]

\* One invocation of geofence_trigger.  caught tells whether the handler's
\* except clause ran, raised whether an exception left the handler.
geofence_trigger(ev, blob, environ, fetch_ok, send_ok) ==
    LET failed == [ op |-> "geofence_trigger", ev |-> ev, device_id |-> None,
                    run |-> NoRun, caught |-> CatchesAll(TRUE),
                    raised |-> ~CatchesAll(TRUE) ]
    IN  IF ev.kind = "garbage" \/ DeviceIdRaises(ev) THEN failed
        ELSE IF ev.kind = "array"
        THEN [failed EXCEPT !.device_id = ResolveDeviceId(ev),
                            !.run = [NoRun EXCEPT !.raised = TRUE,
                                                  !.outcome = "payload_no_object"]]
        ELSE LET device_id == ResolveDeviceId(ev)
                 run == process_geofence_event(ev.body, device_id, blob, environ,
                                               fetch_ok, send_ok)
             IN  [ op |-> "geofence_trigger", ev |-> ev, device_id |-> device_id,
                   run |-> run, caught |-> CatchesAll(run.raised),
                   raised |-> run.raised /\ ~CatchesAll(run.raised) ]

---------------------------------------------------------------------------
(* eventhub_trigger and list_gps_dates *)

\* the instants datetime.utcnow() can return, in order
Timeline ==
    << [Y |-> "2024", m |-> "01", d |-> "02", file |-> "235958.json",
        iso |-> "2024-01-02T23:59:58"],
       [Y |-> "2024", m |-> "01", d |-> "02", file |-> "235959.json",
        iso |-> "2024-01-02T23:59:59"],
       [Y |-> "2024", m |-> "01", d |-> "03", file |-> "000000.json",
        iso |-> "2024-01-03T00:00:00"] >>

\* a string as the sequence of its parts between slashes: str.split('/')
SplitSlash(s) == IF s = "a/b" THEN <<"a", "b">> ELSE <<s>>

\* f"{device_id}": None prints as "None"
FormatId(device_id) == IF device_id = None THEN "None" ELSE Val(device_id)

\* line 136: the blob name, as the sequence of its parts between slashes
BlobName(device_id, t) ==
    SplitSlash(FormatId(device_id))
        \o <<Timeline[t].Y, Timeline[t].m, Timeline[t].d, Timeline[t].file>>

\* strftime('%Y-%m-%d') and f"{a}-{b}-{c}": a string made of three parts
\* joined by dashes is the triple of its parts
DashJoin(a, b, c) == <<a, b, c>>
DateOf(t) == DashJoin(Timeline[t].Y, Timeline[t].m, Timeline[t].d)

\* lines 138-143; t_stamp and t_date are what utcnow() returns at lines 140, 142
DataToStore(ev, device_id, t_stamp, t_date) ==
    [ device_id |-> device_id,
      timestamp |-> PyOr(Get(ev.meta, "enqueuedtime", None),
                         Str(Timeline[t_stamp].iso)),
      gps       |-> Get(ev.body, "gps", ev.body),
      date      |-> DateOf(t_date) ]

\* Upload keeping the object a key already holds
UploadKeepingFirst(container, name, data) ==
    [k \in DOMAIN container \cup {name} |->
        IF k \in DOMAIN container THEN container[k] ELSE data]

\* upload_blob(..., overwrite=True)
Upload(container, name, data) ==
    [k \in DOMAIN container \cup {name} |->
        IF k = name THEN data ELSE container[k]]

\* One invocation of eventhub_trigger: the record of what it did.  The
\* clock reads t_name, t_stamp, t_date in this order.
eventhub_trigger(ev, t_name, t_stamp, t_date, write_ok) ==
    LET failed == [ op |-> "eventhub_trigger", ev |-> ev, device_id |-> None,
                    blob_name |-> << >>, data |-> EmptyDict, wrote |-> FALSE,
                    caught |-> CatchesAll(TRUE), raised |-> ~CatchesAll(TRUE) ]
    IN  IF ev.kind = "garbage" \/ DeviceIdRaises(ev) THEN failed
        ELSE IF ev.kind = "array"
        THEN [failed EXCEPT !.device_id = ResolveDeviceId(ev),
                            !.blob_name = BlobName(ResolveDeviceId(ev), t_name)]
        ELSE LET device_id == ResolveDeviceId(ev)
             IN  [ op |-> "eventhub_trigger", ev |-> ev, device_id |-> device_id,
                   blob_name |-> BlobName(device_id, t_name),
                   data |-> DataToStore(ev, device_id, t_stamp, t_date),
                   wrote |-> write_ok, caught |-> CatchesAll(~write_ok),
                   raised |-> ~write_ok /\ ~CatchesAll(~write_ok) ]

\* the order of the strings that occur as parts, as Python compares them
AsciiOrder ==
    <<"", "01", "02", "03", "2024", "None", "a", "b", "dev1", "dev2",
      "unknown-device">>
Rank(s) == CHOOSE i \in 1..Len(AsciiOrder) : AsciiOrder[i] = s

\* x < y for two strings of three dash-joined parts; no part that occurs is
\* a prefix of another one, so the first differing part decides
DashLess(x, y) ==
    \/ Rank(x[1]) < Rank(y[1])
    \/ x[1] = y[1] /\ Rank(x[2]) < Rank(y[2])
    \/ x[1] = y[1] /\ x[2] = y[2] /\ Rank(x[3]) < Rank(y[3])

\* sorted(list(dates))
RECURSIVE Sorted(_)
Sorted(S) ==
    IF S = {} THEN << >>
    ELSE LET least == CHOOSE x \in S : \A y \in S \ {x} : DashLess(x, y)
         IN  <<least>> \o Sorted(S \ {least})

\* lines 164-169: the dates of the blob names of the container
DatesOf(container) ==
    {DashJoin(name[2], name[3], name[4]) :
        name \in {n \in DOMAIN container : Len(n) >= 4}}

\* One request to list_gps_dates; list_ok tells whether listing succeeds
list_gps_dates(container, list_ok) ==
    IF list_ok
    THEN [op |-> "list_gps_dates", status |-> 200, dates |-> Sorted(DatesOf(container))]
    ELSE [op |-> "list_gps_dates", status |-> 500, dates |-> << >>]

\* events of the storage consumer
StoreEvents ==
    {Event("object", b @@ c[2], c[1] @@ e) :
        b \in {Shaped(TRUE, CoordDict("lat", 100, "lon", 51)),
               CoordDict("latitude", 0, "", 0)},
        c \in IdCases, e \in {EmptyDict, EnqueuedMeta}}
      \cup MalformedEvents

---------------------------------------------------------------------------
(* test_geofence *)

\* One request to test_geofence with the query parameters lat and lon;
\* numeric tells whether float() accepts them.  The event is built at line
\* 214 and handled by process_geofence_event as device "test-device".
test_geofence(lat, lon, numeric, blob, environ, fetch_ok, send_ok) ==
    LET test_event == "gps" :> (("lat" :> Num(lat)) @@ ("lon" :> Num(lon)))
        run == IF numeric
               THEN process_geofence_event(test_event, Str("test-device"), blob,
                                           environ, fetch_ok, send_ok)
               ELSE [NoRun EXCEPT !.raised = TRUE, !.outcome = "bad_parameter"]
    IN  [ op |-> "test_geofence", lat |-> Num(lat), lon |-> Num(lon),
          numeric |-> numeric, run |-> run,
          caught |-> CatchesAll(run.raised),
          raised |-> run.raised /\ ~CatchesAll(run.raised),
          status |-> IF run.raised THEN 500 ELSE 200,
          text |-> IF run.raised THEN "Error" ELSE "Test geofence check completed" ]

---------------------------------------------------------------------------
(* The state machine *)

EnvNames == {"SendGridApiKey", "SenderEmail", "AlertRecipientEmail"}

\* the state after deployment, with one of the given streams in the hub
Start(streams) ==
    /\ env \in SUBSET EnvNames
    /\ geofence_blob \in BlobContents
    /\ store = EmptyDict
    /\ clock = 1
    /\ last = [op |-> "none"]
    /\ handled = 0
    /\ alert_calls = 0
    /\ eligible = 0
    /\ boundary_log = << >>
    /\ uploads = 0
    /\ hub \in [stream : streams, storage : {0}, geofence : {0}]

Init == Start({<< >>})

\* what one call of process_geofence_event adds to the counters
CountRun(run) ==
    /\ alert_calls' = alert_calls + Len(run.alerts)
    /\ eligible' = eligible +
          (IF run.evaluated /\ IsNum(run.decision) /\ Val(run.decision) <= 0
           THEN 1 ELSE 0)
    /\ boundary_log' = IF run.boundary = NoBlob THEN boundary_log
                       ELSE Append(boundary_log, run.boundary)

\* GeofenceTriggerOn keeping the first boundary document it loaded
GeofenceTriggerCachedOn(pool) ==
    \E ev \in pool, fetch_ok \in BOOLEAN, send_ok \in BOOLEAN :
        LET cached == IF boundary_log = << >> THEN geofence_blob
                      ELSE boundary_log[1]
        IN  /\ handled < MaxEvents
            /\ last' = geofence_trigger(ev, cached, env, fetch_ok, send_ok)
            /\ handled' = handled + 1
            /\ CountRun(last'.run)
            /\ UNCHANGED <<env, geofence_blob, store, clock, uploads, hub>>

\* GeofenceTriggerOn keeping back the alert of a device whose previous event
\* already raised one
GeofenceTriggerDebouncedOn(pool) ==
    \E ev \in pool, fetch_ok \in BOOLEAN, send_ok \in BOOLEAN :
        LET rec == geofence_trigger(ev, geofence_blob, env, fetch_ok, send_ok)
            again == /\ last.op = "geofence_trigger"
                     /\ last.run.alerts # << >>
                     /\ last.device_id = rec.device_id
        IN  /\ handled < MaxEvents
            /\ last' = IF again THEN [rec EXCEPT !.run.alerts = << >>] ELSE rec
            /\ handled' = handled + 1
            /\ CountRun(last'.run)
            /\ UNCHANGED <<env, geofence_blob, store, clock, uploads, hub>>

\* the geofence consumer handles one event of the pool
GeofenceTriggerOn(pool) ==
    \E ev \in pool, fetch_ok \in BOOLEAN, send_ok \in BOOLEAN :
        /\ handled < MaxEvents
        /\ last' = geofence_trigger(ev, geofence_blob, env, fetch_ok, send_ok)
        /\ handled' = handled + 1
        /\ CountRun(last'.run)
        /\ UNCHANGED <<env, geofence_blob, store, clock, uploads, hub>>

\* the storage consumer handles one event of the pool; the clock may advance
\* between the reads of lines 136, 140 and 142
EventhubTriggerOn(pool) ==
    \E ev \in pool, write_ok \in BOOLEAN,
       t_stamp \in clock..Len(Timeline) :
        \E t_date \in t_stamp..Len(Timeline) :
            /\ handled < MaxEvents
            /\ last' = eventhub_trigger(ev, clock, t_stamp, t_date, write_ok)
            /\ store' = IF last'.wrote
                        THEN Upload(store, last'.blob_name, last'.data)
                        ELSE store
            /\ uploads' = IF last'.wrote THEN uploads + 1 ELSE uploads
            /\ clock' = t_date
            /\ handled' = handled + 1
            /\ UNCHANGED <<env, geofence_blob, alert_calls, eligible, boundary_log,
                           hub>>

GeofenceTrigger == GeofenceTriggerOn(GeoEvents)

EventhubTrigger == EventhubTriggerOn(StoreEvents)

TestGeofence ==
    \E lat \in Lats, lon \in Lons, numeric \in BOOLEAN,
       fetch_ok \in BOOLEAN, send_ok \in BOOLEAN :
        /\ handled < MaxEvents
        /\ last' = test_geofence(lat, lon, numeric, geofence_blob, env,
                                 fetch_ok, send_ok)
        /\ handled' = handled + 1
        /\ CountRun(last'.run)
        /\ UNCHANGED <<env, geofence_blob, store, clock, uploads, hub>>

ListGpsDates ==
    \E list_ok \in BOOLEAN :
        /\ last' = list_gps_dates(store, list_ok)
        /\ UNCHANGED <<env, geofence_blob, store, clock, handled, alert_calls,
                       eligible, boundary_log, uploads, hub>>

\* the wall clock advances between two invocations
Tick ==
    /\ clock < Len(Timeline)
    /\ clock' = clock + 1
    /\ UNCHANGED <<env, geofence_blob, store, last, handled, alert_calls,
                   eligible, boundary_log, uploads, hub>>

\* the external author commits another boundary definition
AuthorReplacesBoundary ==
    /\ geofence_blob' \in BlobContents \ {geofence_blob}
    /\ UNCHANGED <<env, store, clock, last, handled, alert_calls, eligible,
                   boundary_log, uploads, hub>>

\* the geofence consumer and the test endpoint, with a boundary that stays
InitGeofence == Init
NextGeofence == GeofenceTrigger \/ TestGeofence
SpecGeofence == InitGeofence /\ [][NextGeofence]_vars

\* the storage consumer and the date listing
InitStorage ==
    /\ Init
    /\ env = EnvNames
    /\ geofence_blob = JsonBlob(PolygonGeometry(Ring1))
NextStorage == EventhubTrigger \/ ListGpsDates \/ Tick
SpecStorage == InitStorage /\ [][NextStorage]_vars

\* events for the specifications below: inside and outside Ring1, without
\* coordinates, no JSON object, and no JSON
SharedEvents ==
    { Event("object", Shaped(TRUE, CoordDict("lat", 100, "lon", 51)), DeviceMeta),
      Event("object", CoordDict("lat", 100, "lon", -51), DeviceMeta @@ EnqueuedMeta),
      Event("object", "deviceId" :> Str("dev2"), EmptyDict),
      Event("array", EmptyDict, DeviceMeta),
      Event("garbage", EmptyDict, EmptyDict) }

\* the geofence consumer while the external author replaces the boundary
GeofenceShared == GeofenceTriggerOn(SharedEvents)
InitBoundary == Init /\ env = {}
NextBoundary == GeofenceShared \/ AuthorReplacesBoundary
SpecBoundary == InitBoundary /\ [][NextBoundary]_vars

\* the streams the hub may hold
Streams == [1..MaxEvents -> SharedEvents]

\* the event a consumer group reads next
NextEvent(offset) == hub.stream[offset + 1]

\* consumer group "geofence": geofence_trigger gets the next event of the
\* stream at the group's own offset
GeofenceNext ==
    \E fetch_ok \in BOOLEAN, send_ok \in BOOLEAN :
        /\ hub.geofence < Len(hub.stream)
        /\ last' = geofence_trigger(NextEvent(hub.geofence), geofence_blob, env,
                                    fetch_ok, send_ok)
        /\ hub' = [hub EXCEPT !.geofence = @ + 1]
        /\ handled' = handled + 1
        /\ CountRun(last'.run)
        /\ UNCHANGED <<env, geofence_blob, store, clock, uploads>>

\* EventhubNext held up while the last geofence invocation ended in its
\* except clause
EventhubNextUnlessGeofenceFailed ==
    \E write_ok \in BOOLEAN, t_stamp \in clock..Len(Timeline) :
        \E t_date \in t_stamp..Len(Timeline) :
            /\ hub.storage < Len(hub.stream)
            /\ ~(last.op = "geofence_trigger" /\ last.caught)
            /\ last' = eventhub_trigger(NextEvent(hub.storage), clock, t_stamp,
                                        t_date, write_ok)
            /\ store' = IF last'.wrote
                        THEN Upload(store, last'.blob_name, last'.data)
                        ELSE store
            /\ uploads' = IF last'.wrote THEN uploads + 1 ELSE uploads
            /\ clock' = t_date
            /\ hub' = [hub EXCEPT !.storage = @ + 1]
            /\ handled' = handled + 1
            /\ UNCHANGED <<env, geofence_blob, alert_calls, eligible, boundary_log>>

\* consumer group "$Default": eventhub_trigger gets the next event of the
\* stream at the group's own offset
EventhubNext ==
    \E write_ok \in BOOLEAN, t_stamp \in clock..Len(Timeline) :
        \E t_date \in t_stamp..Len(Timeline) :
            /\ hub.storage < Len(hub.stream)
            /\ last' = eventhub_trigger(NextEvent(hub.storage), clock, t_stamp,
                                        t_date, write_ok)
            /\ store' = IF last'.wrote
                        THEN Upload(store, last'.blob_name, last'.data)
                        ELSE store
            /\ uploads' = IF last'.wrote THEN uploads + 1 ELSE uploads
            /\ clock' = t_date
            /\ hub' = [hub EXCEPT !.storage = @ + 1]
            /\ handled' = handled + 1
            /\ UNCHANGED <<env, geofence_blob, alert_calls, eligible, boundary_log>>

\* both consumer groups on one stream, in every interleaving
InitBoth ==
    /\ Start(Streams)
    /\ env = EnvNames
    /\ geofence_blob \in { JsonBlob(PolygonGeometry(Ring1)),
                           JsonBlob(PointGeometry), GarbageBlob }
NextBoth == GeofenceNext \/ EventhubNext
SpecBoth == InitBoth /\ [][NextBoth]_vars

---------------------------------------------------------------------------
(* Properties of the geofence path, checked under SpecGeofence *)

GeoRan == last.op = "geofence_trigger"
Evaluated == GeoRan /\ last.run.evaluated

\* the values an event carries as its latitude and as its longitude
EventLats(ev) ==
    {GpsData(ev.body)[k] : k \in {"lat", "latitude"} \cap DOMAIN GpsData(ev.body)}
EventLons(ev) ==
    {GpsData(ev.body)[k] : k \in {"lon", "longitude"} \cap DOMAIN GpsData(ev.body)}

\* the geometry the document designates has a type
HasTypedGeometry(blob) ==
    /\ blob.kind = "json"
    /\ SelectGeometry(blob.doc) # "error"
    /\ "type" \in DOMAIN Geometry(blob.doc)

PolygonBoundary(blob) ==
    HasTypedGeometry(blob) /\ Geometry(blob.doc)["type"] = "Polygon"
NonPolygonBoundary(blob) ==
    HasTypedGeometry(blob) /\ Geometry(blob.doc)["type"] # "Polygon"

RingOf(blob) == ClosedRing(Geometry(blob.doc)["coordinates"][1])
PointOf(run) == <<Val(run.lon), Val(run.lat)>>

\* C1: for an event whose boundary was fetched and evaluated, the decision
\* value is <= 0 exactly when send_geofence_alert is called once, with the
\* event's latitude, longitude and device id; when it is > 0 there is no call.
C1_AlertIffDecisionNonPositive ==
    Evaluated =>
        LET r == last.run
            nonpos == IsNum(r.decision) /\ Val(r.decision) <= 0
            once == /\ Len(r.alerts) = 1
                    /\ r.alerts[1].lat \in EventLats(last.ev)
                    /\ r.alerts[1].lon \in EventLons(last.ev)
                    /\ r.alerts[1].lat = r.lat
                    /\ r.alerts[1].lon = r.lon
                    /\ r.alerts[1].device_id = ResolveDeviceId(last.ev)
        IN  /\ nonpos <=> once
            /\ (IsNum(r.decision) /\ Val(r.decision) > 0) => Len(r.alerts) = 0

\* C1 witness: an event of device dev2 on the boundary side of the decision
\* (<= 0) for which the alert was called once
C1_Witness ==
    /\ Evaluated
    /\ IsNum(last.run.decision) /\ Val(last.run.decision) <= 0
    /\ Len(last.run.alerts) = 1
    /\ last.run.alerts[1].device_id = Str("dev2")

\* C2: with a boundary whose geometry type is not Polygon, the evaluation
\* reports the fallback +999, nothing is raised by the evaluator or by the
\* geofence path, and no alert is dispatched.
C2_NonPolygonFallsBack ==
    (Evaluated /\ NonPolygonBoundary(last.run.boundary)) =>
        /\ last.run.decision = Num(999)
        /\ ~last.run.raised
        /\ last.run.alerts = << >>

\* C3: for a Polygon boundary the decision value is a function of
\* containment and of the distance d to the boundary: contained and d > 50
\* gives -999, contained and d <= 50 gives -d, not contained and d > 50 gives
\* 999, not contained and d <= 50 gives d.
C3_DecisionTable ==
    (Evaluated /\ PolygonBoundary(last.run.boundary)) =>
        LET ring == RingOf(last.run.boundary)
            p == PointOf(last.run)
            d == DistanceMeters(p, ring)
        IN  last.run.decision =
                IF Contains(ring, p)
                THEN IF d > 50 THEN Num(-999) ELSE Num(-d)
                ELSE IF d > 50 THEN Num(999) ELSE Num(d)

\* C3 witness: a contained point at exactly 50 m, decided -50
C3_Witness ==
    /\ Evaluated /\ PolygonBoundary(last.run.boundary)
    /\ Contains(RingOf(last.run.boundary), PointOf(last.run))
    /\ DistanceMeters(PointOf(last.run), RingOf(last.run.boundary)) = 50
    /\ last.run.decision = Num(-50)

\* C4: for a Polygon boundary the decision value is <= 0 exactly when the
\* point is contained, and an alert is dispatched only for contained points.
C4_NonPositiveIffContained ==
    (Evaluated /\ PolygonBoundary(last.run.boundary)) =>
        LET inside == Contains(RingOf(last.run.boundary), PointOf(last.run))
        IN  /\ (Val(last.run.decision) <= 0) <=> inside
            /\ last.run.alerts # << >> => inside

\* an object payload that has none of lat, latitude, lon, longitude
NoCoordinateKeys(ev) ==
    /\ ev.kind = "object"
    /\ DOMAIN GpsData(ev.body) \cap {"lat", "latitude", "lon", "longitude"} = {}

\* C5: an event with neither lat/latitude nor lon/longitude is dropped
\* before any boundary fetch: no download, no evaluation, no alert, and the
\* handler completes normally.
C5_NoCoordinatesNoFetch ==
    (GeoRan /\ NoCoordinateKeys(last.ev)) =>
        /\ last.run.fetches = 0
        /\ ~last.run.evaluated
        /\ last.run.alerts = << >>
        /\ last.run.outcome = "skipped_no_coordinates"
        /\ ~last.run.raised /\ ~last.caught /\ ~last.raised

\* C5 witness: such an event was handled, with the coordinates missing under
\* a gps sub-object
C5_Witness ==
    /\ GeoRan /\ NoCoordinateKeys(last.ev)
    /\ "gps" \in DOMAIN last.ev.body
    /\ last.run.outcome = "skipped_no_coordinates"

\* an object payload with exactly one latitude and one longitude
CarriesBothCoordinates(ev) ==
    /\ ev.kind = "object"
    /\ Cardinality({"lat", "latitude"} \cap DOMAIN GpsData(ev.body)) = 1
    /\ Cardinality({"lon", "longitude"} \cap DOMAIN GpsData(ev.body)) = 1

\* C6: every event that carries both coordinates in an accepted shape, for
\* every numeric value including 0, is extracted with exactly those values
\* and proceeds to the boundary fetch.
C6_BothCoordinatesAccepted ==
    (GeoRan /\ CarriesBothCoordinates(last.ev)) =>
        /\ last.run.lat \in EventLats(last.ev)
        /\ last.run.lon \in EventLons(last.ev)
        /\ last.run.fetches = 1

FullyConfigured(environ) ==
    {"SendGridApiKey", "SenderEmail", "AlertRecipientEmail"} \subseteq environ

\* C9: send_geofence_alert makes an outward attempt only when sender,
\* recipient and credential are all present; when one is absent it makes no
\* attempt, records a log-only no-op and returns normally.
C9_AttemptOnlyWhenConfigured ==
    (GeoRan /\ Len(last.run.alerts) = 1) =>
        LET a == last.run.alerts[1]
        IN  /\ a.attempts > 0 => FullyConfigured(env)
            /\ ~FullyConfigured(env) => (a.attempts = 0 /\ a.mock /\ ~a.raised)

---------------------------------------------------------------------------
(* Properties of the storage path, checked under SpecStorage *)

StoreRan == last.op = "eventhub_trigger"

\* C7: the key is deterministic in the sample (its device id and its
\* timestamp, the enqueue time when present), so delivering the same event
\* again at a later time writes to the same key and leaves the number of
\* stored objects unchanged.
C7_RedeliverySameKey ==
    [][ ( /\ StoreRan /\ last.wrote
          /\ "enqueuedtime" \in DOMAIN last.ev.meta
          /\ handled' = handled + 1
          /\ last'.op = "eventhub_trigger" /\ last'.wrote
          /\ last'.ev = last.ev ) =>
        ( /\ last'.blob_name = last.blob_name
          /\ Cardinality(DOMAIN store') = Cardinality(DOMAIN store) ) ]_vars

\* the YYYY-MM-DD under which a blob name is stored: the three parts before
\* the file name
KeyDate(name) ==
    DashJoin(name[Len(name) - 3], name[Len(name) - 2], name[Len(name) - 1])
StoredDates(container) == {KeyDate(name) : name \in DOMAIN container}

\* C8: list_gps_dates returns exactly the dates under which a sample is
\* stored, without duplicates and in ascending order, for every device id.
C8_ListIsStoredDates ==
    (last.op = "list_gps_dates" /\ last.status = 200) =>
        /\ {last.dates[i] : i \in 1..Len(last.dates)} = StoredDates(store)
        /\ Len(last.dates) = Cardinality(StoredDates(store))
        /\ \A i \in 1..(Len(last.dates) - 1) :
              DashLess(last.dates[i], last.dates[i + 1])

\* C10: both consumers use the transport's connection-device-id when it is
\* present, else the payload's deviceId, else "unknown-device"; the device id
\* is never empty or null.
C10_DeviceIdentity ==
    ((GeoRan \/ StoreRan) /\ last.ev.kind = "object") =>
        LET meta == last.ev.meta
            body == last.ev.body
        IN  /\ "connection-device-id" \in DOMAIN meta =>
                  last.device_id = meta["connection-device-id"]
            /\ ("connection-device-id" \notin DOMAIN meta
                    /\ "deviceId" \in DOMAIN body) =>
                  last.device_id = body["deviceId"]
            /\ ("connection-device-id" \notin DOMAIN meta
                    /\ "deviceId" \notin DOMAIN body) =>
                  last.device_id = Str("unknown-device")
            /\ last.device_id # None
            /\ last.device_id # Str("")


---------------------------------------------------------------------------
(* Properties of the test endpoint and of the geofence path, continued *)

TestRan == last.op = "test_geofence"
RanGeofencePath == GeoRan \/ TestRan

\* C11: test_geofence answers with the completion message and status 200
\* only when the boundary was fetched and a decision was computed for the
\* supplied numeric coordinates.
C11_CompletedOnlyAfterEvaluation ==
    (TestRan /\ last.numeric /\ last.status = 200) =>
        /\ last.run.fetches = 1
        /\ last.run.evaluated
        /\ IsNum(last.run.decision)

IsCollection(blob) ==
    /\ blob.kind = "json"
    /\ "type" \in DOMAIN blob.doc
    /\ blob.doc["type"] = "FeatureCollection"
    /\ Len(blob.doc["features"]) >= 1

\* the collection without its features at index >= 1
FirstFeatureOnly(blob) ==
    JsonBlob(FeatureCollection(<<blob.doc["features"][1]>>))

\* C12: with a FeatureCollection of N >= 1 features as the boundary, the
\* decision value and the alert are those of the collection holding
\* features[0] alone: the features at index >= 1 change neither.
C12_OnlyFirstFeature ==
    (GeoRan /\ last.run.fetches = 1 /\ IsCollection(last.run.boundary)) =>
        LET alone == process_geofence_event(last.ev.body, last.device_id,
                         FirstFeatureOnly(last.run.boundary), env, TRUE, TRUE)
        IN  /\ last.run.decision = alone.decision
            /\ Len(last.run.alerts) = Len(alone.alerts)
            /\ last.run.outcome = alone.outcome

\* an event handled against two features whose rings decide differently
C12_Witness ==
    /\ GeoRan /\ last.run.evaluated
    /\ IsCollection(last.run.boundary)
    /\ Len(last.run.boundary.doc["features"]) = 2
    /\ last.run.alerts # << >>
    /\ LET second == last.run.boundary.doc["features"][2]["geometry"]
       IN  /\ second["type"] = "Polygon"
           /\ Val(PolygonDecision(PointOf(last.run),
                      ClosedRing(second["coordinates"][1]))) > 0

\* the boundary blob was asked for and no document came back
LoadFailed(run) == run.fetches = 1 /\ run.boundary = NoBlob

\* C15: an event whose boundary fetch or parse fails is skipped: the
\* evaluator is not called, no alert is dispatched, the handler returns
\* without an exception, and nothing but the record of the invocation
\* changes; a blob that is no JSON always ends this way once the coordinates
\* are extracted.
C15_LoadFailureSkips ==
    [][ (last'.op = "geofence_trigger" /\ handled' = handled + 1) =>
          /\ (geofence_blob.kind # "json" /\ last'.run.fetches = 1)
                => LoadFailed(last'.run)
          /\ LoadFailed(last'.run) =>
                /\ ~last'.run.evaluated
                /\ last'.run.decision = None
                /\ last'.run.alerts = << >>
                /\ last'.caught /\ ~last'.raised
                /\ UNCHANGED <<env, geofence_blob, store, clock, alert_calls,
                               eligible, boundary_log, uploads, hub>> ]_vars

\* a second event skipped on a blob that is no JSON, after an alert
C15_Witness ==
    /\ GeoRan /\ LoadFailed(last.run)
    /\ alert_calls = 1
    /\ handled = 2

\* C16: the number of calls of send_geofence_alert equals the number of
\* handled events whose decision value was <= 0, after every sequence of
\* events.
C16_AlertPerEligibleEvent == alert_calls = eligible

\* two events in a row from the same device, each with its own alert
C16_Witness ==
    /\ GeoRan /\ handled = 2 /\ alert_calls = 2
    /\ last.run.alerts # << >>
    /\ Len(boundary_log) = 2

\* C19: with the API key present, a call of send_geofence_alert makes one
\* send attempt whether or not it succeeds, returns normally, and the
\* handler ends as it does after a delivered alert.
C19_OneAttemptFailureSwallowed ==
    (RanGeofencePath /\ last.run.alerts # << >> /\ "SendGridApiKey" \in env) =>
        /\ Len(last.run.alerts) = 1
        /\ last.run.alerts[1].attempts = 1
        /\ ~last.run.alerts[1].raised
        /\ last.run.outcome = "dispatched"
        /\ ~last.run.raised /\ ~last.caught /\ ~last.raised

\* an attempt that failed
C19_Witness ==
    /\ GeoRan /\ last.run.alerts # << >>
    /\ "SendGridApiKey" \in env
    /\ last.run.alerts[1].attempts = 1
    /\ ~last.run.alerts[1].delivered


---------------------------------------------------------------------------
(* Properties of the boundary over time *)

\* a step in which geofence_trigger handled an event
GeofenceHandled == last'.op = "geofence_trigger" /\ handled' = handled + 1

\* C17: every event whose coordinates are extracted fetches the boundary
\* blob once, and an evaluated event is decided against the document that
\* is in the blob when the event is handled, whatever was there for the
\* events before.
C17_BoundaryReadPerEvent ==
    [][ GeofenceHandled =>
          /\ ~CoordinatesMissing(last'.run.lat, last'.run.lon)
                => last'.run.fetches = 1
          /\ last'.run.evaluated =>
                /\ last'.run.boundary = geofence_blob
                /\ last'.run.decision =
                      point_in_geofence(last'.run.lat, last'.run.lon,
                                        geofence_blob.doc)
                /\ boundary_log' = Append(boundary_log, geofence_blob) ]_vars

\* two events decided against two different documents: an alert under the
\* first, none under the one that replaced it
C17_Witness ==
    /\ GeoRan /\ last.run.evaluated
    /\ Len(boundary_log) = 2
    /\ boundary_log[1] # boundary_log[2]
    /\ boundary_log[2] = geofence_blob
    /\ alert_calls = 1
    /\ last.run.outcome = "outside"

---------------------------------------------------------------------------
(* Properties of the two consumer groups on one stream *)

GeofenceStep == last'.op = "geofence_trigger" /\ hub'.geofence = hub.geofence + 1
StorageStep == last'.op = "eventhub_trigger" /\ hub'.storage = hub.storage + 1

\* an event the storage path can take a key from
Storable(ev) == ev.kind = "object" /\ ~DeviceIdRaises(ev)

\* C13: a step of one consumer group changes nothing the other group reads
\* or writes and does not move the other group's offset; what the geofence
\* group does with an event is given by the event, the boundary and the
\* environment alone; and whatever the other group just did, a group can
\* handle its next event, and the storage group can store it when the event
\* has a key.
C13_ConsumersIndependent ==
    [][ /\ GeofenceStep =>
              /\ UNCHANGED <<store, clock, uploads>>
              /\ hub'.storage = hub.storage
              /\ \E fetch_ok \in BOOLEAN, send_ok \in BOOLEAN :
                     last' = geofence_trigger(NextEvent(hub.geofence),
                                 geofence_blob, env, fetch_ok, send_ok)
        /\ StorageStep =>
              /\ UNCHANGED <<env, geofence_blob, alert_calls, eligible, boundary_log>>
              /\ hub'.geofence = hub.geofence
        /\ (last.op = "geofence_trigger" /\ hub.storage < Len(hub.stream)) =>
              IF Storable(NextEvent(hub.storage))
              THEN ENABLED (EventhubNext /\ last'.wrote)
              ELSE ENABLED EventhubNext
        /\ (last.op = "eventhub_trigger" /\ hub.geofence < Len(hub.stream)) =>
              ENABLED GeofenceNext ]_vars

\* an event without coordinates, skipped by the geofence group and stored
\* by the storage group
C13_Witness ==
    /\ StoreRan /\ last.wrote
    /\ hub.storage = 1 /\ hub.geofence >= 1
    /\ last.ev = hub.stream[1]
    /\ NoCoordinateKeys(last.ev)
    /\ alert_calls = 0

\* C14: every invocation of eventhub_trigger and of geofence_trigger returns
\* without an exception leaving it, moves its group's offset by one, makes
\* at most one fetch, one alert call with one send attempt and one upload,
\* and after an invocation that ended in its except clause the group can
\* handle the next event of the stream.
C14_NoEventHaltsConsumer ==
    [][ (GeofenceStep \/ StorageStep) =>
          /\ ~last'.raised
          /\ hub'.geofence + hub'.storage = hub.geofence + hub.storage + 1
          /\ GeofenceStep =>
                /\ last'.run.fetches <= 1
                /\ Len(last'.run.alerts) <= 1
                /\ \A i \in 1..Len(last'.run.alerts) :
                       last'.run.alerts[i].attempts <= 1
          /\ StorageStep => uploads' - uploads \in {0, 1}
          /\ (last.op = "geofence_trigger" /\ last.caught
                  /\ hub.geofence < Len(hub.stream)) => ENABLED GeofenceNext
          /\ (last.op = "eventhub_trigger" /\ last.caught
                  /\ hub.storage < Len(hub.stream)) => ENABLED EventhubNext ]_vars

\* an alert for the event that follows one whose body is no JSON object
C14_Witness ==
    /\ GeoRan /\ hub.geofence = 2
    /\ hub.stream[1].kind # "object"
    /\ last.ev = hub.stream[2]
    /\ last.run.alerts # << >>


---------------------------------------------------------------------------
(* Properties of the sample store, continued *)

\* a step in which eventhub_trigger handled an event
StorageHandled == last'.op = "eventhub_trigger" /\ handled' = handled + 1

\* C18: a write that succeeds leaves under its key the sample it wrote,
\* whether or not the key held an object, leaves every other key with the
\* object it had, and adds no key but its own; a write that fails leaves the
\* store as it was.
C18_LastWriteWins ==
    [][ StorageHandled =>
          IF last'.wrote
          THEN /\ DOMAIN store' = DOMAIN store \cup {last'.blob_name}
               /\ store'[last'.blob_name] = last'.data
               /\ \A k \in DOMAIN store \ {last'.blob_name} : store'[k] = store[k]
               /\ last'.blob_name \in DOMAIN store =>
                     Cardinality(DOMAIN store') = Cardinality(DOMAIN store)
               /\ ~last'.caught /\ ~last'.raised
          ELSE store' = store ]_vars

\* two samples written to one key within one second, the store holding the
\* later one, whose timestamp is the clock's and not the enqueue time
C18_Witness ==
    /\ StoreRan /\ last.wrote
    /\ uploads = 2
    /\ Cardinality(DOMAIN store) = 1
    /\ store[last.blob_name] = last.data
    /\ "enqueuedtime" \notin DOMAIN last.ev.meta

\* C20: the date field of every stored sample is the date in the key it is
\* stored under.
C20_StoredDateIsKeyDate ==
    \A name \in DOMAIN store : store[name].date = KeyDate(name)

=============================================================================
